---- MODULE Spec2Model ----
(***************************************************************************)
(* Model of the admin-authentication backend (src/main.py): signed,        *)
(* time-limited tokens (create_jwt / verify_jwt), the bearer-token gate    *)
(* (get_bearer_token / require_auth), start-up seeding of the admin        *)
(* store (seed_admin_if_needed / on_startup), the login route and the      *)
(* product routes.                                                         *)
(*                                                                         *)
(* Three specifications share the definitions:                             *)
(*   SpecJwt  - create_jwt and verify_jwt as functions of token and clock  *)
(*   SpecSeed - several processes starting up against one admin store      *)
(*   Spec     - one server: start-up, then login and product requests      *)
(***************************************************************************)
EXTENDS Integers, Sequences, FiniteSets, TLC

VARIABLES
    now,      \* the UTC clock, in ticks (TicksPerSec ticks to a second)
    admin,    \* db["admin"]: the stored documents, in insertion order
    product,  \* db["product"]: the set of stored product ids
    nextId,   \* number of ObjectIds handed out by insert_one on db["product"]
    pc,       \* per process: its position in on_startup / seed_admin_if_needed
    held,     \* the token the client holds (last one issued to it), or NoToken
    last,     \* the last operation performed, its inputs and its response
    prev,     \* the last rejected request before `last`: its kind and response
    ctx       \* SpecJwt only: how the token in `held` was made

vars == <<now, admin, product, nextId, pc, held, last, prev, ctx>>

(***************************************************************************)
(* Bounds of the model.                                                    *)
(***************************************************************************)
TicksPerSec == 2      \* clock resolution below one second
MaxSlackSecs == 2     \* SpecJwt runs the clock to one minute plus this
MaxIssueTick == 1     \* SpecJwt issues tokens while now <= this
NumProcs == 2         \* SpecSeed: processes starting up concurrently
MaxProducts == 1      \* Spec: ObjectIds handed out
MaxPasses == 1        \* Spec: token lifetimes the clock may advance

(***************************************************************************)
(* Configuration (src/main.py:15-16) and units.                            *)
(***************************************************************************)
JWT_SECRET == "dev_secret_change_me"
JWT_EXPIRES_MIN == 60
MinuteSecs == 60

OtherSecret == "some_other_secret"
Secrets == {JWT_SECRET, OtherSecret}

\* timedelta(minutes=m), in ticks
Minutes(m) == m * MinuteSecs * TicksPerSec

\* timegm(dt.utctimetuple()): a datetime as whole seconds, the fraction dropped
Secs(t) == t \div TicksPerSec

NoToken == [kind |-> "none"]
\* a string that is not three dot-separated base64url segments of JSON
Garbage == [kind |-> "garbage"]
None == [kind |-> "None"]
NoCtx == [origin |-> "none"]

(***************************************************************************)
(* Claims maps: functions from a set of keys.  "sub" and "role" carry      *)
(* strings, "exp" a time.                                                  *)
(***************************************************************************)
WithExp(c, e) == [k \in (DOMAIN c) \cup {"exp"} |-> IF k = "exp" THEN e ELSE c[k]]

Without(c, key) == [k \in (DOMAIN c) \ {key} |-> c[k]]

HasExp(c) == "exp" \in DOMAIN c

(***************************************************************************)
(* python-jose as called by create_jwt and verify_jwt.                     *)
(*                                                                         *)
(* A compact token is header.payload.signature, each base64url.  It is     *)
(* modelled by its decoded parts: hdr, claims, the MAC value carried in    *)
(* the signature segment, and pad, the two low-order bits of the last      *)
(* signature character.  A 32-byte HMAC-SHA256 value takes 43 base64url    *)
(* characters; the last one carries 4 bits of the MAC and 2 unused bits,   *)
(* which the encoder writes as 0 and urlsafe_b64decode drops.              *)
(***************************************************************************)
JoseHeader == [alg |-> "HS256", typ |-> "JWT"]

\* HMAC-SHA256 over the signing input, as an ideal MAC: equal values only
\* for equal key and equal input
HS256(key, hdr, claims) == [key |-> key, hdr |-> hdr, claims |-> claims]

\* jwt.encode: "exp" given as a datetime is converted to whole seconds
jwt_encode(claims, key) ==
    LET c == IF HasExp(claims) THEN WithExp(claims, Secs(claims["exp"])) ELSE claims
    IN  [kind |-> "jwt", hdr |-> JoseHeader, claims |-> c,
         mac |-> HS256(key, JoseHeader, c), pad |-> 0]

NoClaims == [k \in {} |-> 0]

JoseOk(c) == [ok |-> TRUE, claims |-> c, err |-> "none"]
JoseErr(e) == [ok |-> FALSE, claims |-> NoClaims, err |-> e]

\* faulty variant: the expiry is never validated
jwt_decode_noexp(token, key, algs, t) ==
    IF token.kind # "jwt" THEN JoseErr("Error decoding token")
    ELSE IF token.hdr.alg \notin algs THEN JoseErr("The specified alg value is not allowed")
    ELSE IF token.mac # HS256(key, token.hdr, token.claims)
         THEN JoseErr("Signature verification failed")
    ELSE JoseOk(token.claims)

\* faulty variant: the signature is never verified
jwt_decode_nosig(token, key, algs, t) ==
    IF token.kind # "jwt" THEN JoseErr("Error decoding token")
    ELSE IF token.hdr.alg \notin algs THEN JoseErr("The specified alg value is not allowed")
    ELSE IF HasExp(token.claims) /\ token.claims["exp"] < Secs(t)
         THEN JoseErr("Signature has expired")
    ELSE JoseOk(token.claims)

\* jwt.decode(token, key, algorithms): load the segments, check the
\* algorithm, verify the signature, then validate "exp" when present
\* against the clock in whole seconds (expired when exp < now)
jwt_decode(token, key, algs, t) ==
    IF token.kind # "jwt" THEN JoseErr("Error decoding token")
    ELSE IF token.hdr.alg \notin algs THEN JoseErr("The specified alg value is not allowed")
    ELSE IF token.mac # HS256(key, token.hdr, token.claims)
         THEN JoseErr("Signature verification failed")
    ELSE IF HasExp(token.claims) /\ token.claims["exp"] < Secs(t)
         THEN JoseErr("Signature has expired")
    ELSE JoseOk(token.claims)

(***************************************************************************)
(* Helpers of src/main.py.                                                 *)
(***************************************************************************)
\* An HTTP response / raised HTTPException
HttpError(code, msg) == [status |-> code, detail |-> msg, claims |-> NoClaims]
Decoded(c) == [status |-> 200, detail |-> "", claims |-> c]
HttpOk == [status |-> 200, detail |-> "", claims |-> NoClaims]

\* faulty variant: no payload.copy(), the caller's map gets the expiry
create_jwt_nocopy(payload, expires_minutes, t) ==
    LET to_encode == WithExp(payload, t + Minutes(expires_minutes))
    IN  [token |-> jwt_encode(to_encode, JWT_SECRET), payload |-> to_encode]

\* create_jwt: the token, and the caller's map as the call leaves it
create_jwt(payload, expires_minutes, t) ==
    LET to_encode == WithExp(payload, t + Minutes(expires_minutes))
    IN  [token |-> jwt_encode(to_encode, JWT_SECRET), payload |-> payload]

\* faulty variant: an expired token gets a detail text of its own
verify_jwt_leaky(token, t) ==
    LET r == jwt_decode(token, JWT_SECRET, {"HS256"}, t)
    IN  IF r.ok THEN Decoded(r.claims)
        ELSE IF r.err = "Signature has expired" THEN HttpError(401, "Token expired")
        ELSE HttpError(401, "Invalid or expired token")

verify_jwt(token, t) ==
    LET r == jwt_decode(token, JWT_SECRET, {"HS256"}, t)
    IN  IF r.ok THEN Decoded(r.claims)
        ELSE HttpError(401, "Invalid or expired token")

(***************************************************************************)
(* The Authorization header as received: absent, or a string, modelled as  *)
(* a sequence of items, each a run of whitespace (SP), a word of letters   *)
(* (W) or a token (T).  "" is the empty sequence.                          *)
(***************************************************************************)
Absent == [present |-> FALSE, raw |-> << >>]
Hdr(raw) == [present |-> TRUE, raw |-> raw]
SP == [w |-> "sp"]
W(text) == [w |-> "word", text |-> text]
T(tok) == [w |-> "tok", tok |-> tok]

\* str.lower() on the scheme words that occur
LowerText(text) ==
    CASE text = "Bearer" -> "bearer"
      [] text = "BEARER" -> "bearer"
      [] text = "Basic"  -> "basic"
      [] OTHER           -> text

\* str.split(): the maximal runs of non-whitespace, in order
RECURSIVE split(_)
split(raw) ==
    IF raw = << >> THEN << >>
    ELSE IF Head(raw) = SP THEN split(Tail(raw))
    ELSE <<Head(raw)>> \o split(Tail(raw))

\* what verify_jwt is handed when parts[1] is this item
TokenOf(item) == IF item.w = "tok" THEN item.tok ELSE Garbage

Pass(tok) == [status |-> 200, detail |-> "", claims |-> NoClaims, token |-> tok]
Reject(code, msg) == [status |-> code, detail |-> msg, claims |-> NoClaims, token |-> Garbage]

get_bearer_token(authorization) ==
    IF ~authorization.present \/ authorization.raw = << >>
    THEN Reject(401, "Authorization header missing")
    ELSE LET parts == split(authorization.raw)
         IN  IF Len(parts) # 2
                \/ ~(parts[1].w = "word" /\ LowerText(parts[1].text) = "bearer")
             THEN Reject(401, "Invalid authorization header format")
             ELSE Pass(TokenOf(parts[2]))

\* faulty variant: the token is decoded without verify_jwt
require_auth_noverify(authorization, t) ==
    LET b == get_bearer_token(authorization)
    IN  IF b.status # 200 THEN HttpError(b.status, b.detail)
        ELSE IF b.token.kind = "jwt" THEN Decoded(b.token.claims)
        ELSE HttpError(401, "Invalid or expired token")

\* Depends(get_bearer_token), then verify_jwt: the decoded claims or the
\* HTTPException raised on the way
require_auth(authorization, t) ==
    LET b == get_bearer_token(authorization)
    IN  IF b.status # 200 THEN HttpError(b.status, b.detail)
        ELSE verify_jwt(b.token, t)

(***************************************************************************)
(* The document store.  db is [admin, product, nextId].                    *)
(***************************************************************************)
Unset == "(unset)"          \* os.getenv of a variable that is not set

\* `not value` for what os.getenv returned: unset, or set to ""
NotSupplied(v) == v = Unset \/ v = ""

Min(S) == CHOOSE x \in S : \A y \in S : x <= y

\* collection.find_one({"username": username}): the first match, or None
find_one(coll, username) ==
    LET hits == {i \in 1..Len(coll) : coll[i].username = username}
    IN  IF hits = {} THEN None ELSE coll[Min(hits)]

\* pwd_context.hash / pwd_context.verify (bcrypt: salted, one-way)
pwd_hash(password, salt) ==
    [scheme |-> "bcrypt", salt |-> salt, digest |-> <<password, salt>>]

pwd_verify(password, hashed) == hashed.digest = <<password, hashed.salt>>

(***************************************************************************)
(* on_startup and seed_admin_if_needed, in the steps other processes can   *)
(* interleave with: the lookup (lines 85-90) and the insert (91-97).       *)
(***************************************************************************)
AtBoot == [at |-> "boot"]
AtServing == [at |-> "serving"]
AtCrashed == [at |-> "crashed"]
AtInsert(u, p) == [at |-> "insert", username |-> u, password |-> p]

\* faulty variant: no try/except around seed_admin_if_needed
on_startup_propagate(raised) == IF raised THEN AtCrashed ELSE AtServing

\* on_startup: try: seed_admin_if_needed() except Exception: pass
on_startup(raised) == AtServing

\* seed_admin_if_needed, lines 85-90: where the process is after the lookup
seed_lookup(coll, username, password, raised) ==
    IF NotSupplied(username) \/ NotSupplied(password)
    THEN on_startup(FALSE)
    ELSE IF raised THEN on_startup(TRUE)
    ELSE IF find_one(coll, username) # None THEN on_startup(FALSE)
    ELSE AtInsert(username, password)

\* seed_admin_if_needed, lines 91-97: the collection after insert_one
seed_insert(coll, username, password, salt, t, raised) ==
    IF raised THEN coll
    ELSE Append(coll, [username |-> username, password |-> pwd_hash(password, salt),
                       created_at |-> t, updated_at |-> t])

(***************************************************************************)
(* Routes.  Each takes the store and the request and gives the response    *)
(* and the store as the handler leaves it.                                 *)
(***************************************************************************)
LoginFailed(code, msg) ==
    [status |-> code, detail |-> msg, token |-> NoToken, username |-> ""]

\* faulty variant: an unknown username is answered 404
admin_login_leaky(db, username, password, t) ==
    LET doc == find_one(db.admin, username)
    IN  IF doc = None
        THEN [res |-> LoginFailed(404, "Unknown user"), db |-> db]
        ELSE IF ~pwd_verify(password, doc.password)
        THEN [res |-> LoginFailed(401, "Invalid credentials"), db |-> db]
        ELSE [res |-> [status |-> 200, detail |-> "",
                       token |-> create_jwt([sub |-> username, role |-> "admin"],
                                            JWT_EXPIRES_MIN, t).token,
                       username |-> username],
              db |-> db]

\* faulty variant: a successful login stamps updated_at on the document
admin_login_touch(db, username, password, t) ==
    LET doc == find_one(db.admin, username)
    IN  IF doc = None
        THEN [res |-> LoginFailed(401, "Invalid credentials"), db |-> db]
        ELSE IF ~pwd_verify(password, doc.password)
        THEN [res |-> LoginFailed(401, "Invalid credentials"), db |-> db]
        ELSE [res |-> [status |-> 200, detail |-> "",
                       token |-> create_jwt([sub |-> username, role |-> "admin"],
                                            JWT_EXPIRES_MIN, t).token,
                       username |-> username],
              db |-> [db EXCEPT !.admin = [i \in 1..Len(db.admin) |->
                         IF db.admin[i] = doc
                         THEN [doc EXCEPT !.updated_at = t + 1]
                         ELSE db.admin[i]]]]

\* POST /api/admin/login
admin_login(db, username, password, t) ==
    LET doc == find_one(db.admin, username)
    IN  IF doc = None
        THEN [res |-> LoginFailed(401, "Invalid credentials"), db |-> db]
        ELSE IF ~pwd_verify(password, doc.password)
        THEN [res |-> LoginFailed(401, "Invalid credentials"), db |-> db]
        ELSE [res |-> [status |-> 200, detail |-> "",
                       token |-> create_jwt([sub |-> username, role |-> "admin"],
                                            JWT_EXPIRES_MIN, t).token,
                       username |-> username],
              db |-> db]

\* GET /api/products (public)
get_products(db) ==
    [res |-> [status |-> 200, detail |-> "", items |-> db.product], db |-> db,
     touched |-> TRUE]

\* POST /api/products (protected); touched: the handler body reached the store
add_product(db, authorization, t) ==
    LET auth == require_auth(authorization, t)
    IN  IF auth.status # 200
        THEN [res |-> HttpError(auth.status, auth.detail), db |-> db, touched |-> FALSE]
        ELSE LET oid == db.nextId + 1
             IN  [res |-> HttpOk,
                  db |-> [db EXCEPT !.product = db.product \cup {oid}, !.nextId = oid],
                  touched |-> TRUE]

\* a path parameter: text that ObjectId() accepts (oid > 0) or not (oid = 0)
ObjectIdOk(product_id) == product_id > 0

\* DELETE /api/products/{product_id} (protected)
delete_product(db, authorization, product_id, t) ==
    LET auth == require_auth(authorization, t)
    IN  IF auth.status # 200
        THEN [res |-> HttpError(auth.status, auth.detail), db |-> db, touched |-> FALSE]
        ELSE IF ~ObjectIdOk(product_id)
        THEN [res |-> HttpError(400, "Invalid product id"), db |-> db, touched |-> FALSE]
        ELSE IF product_id \notin db.product
        THEN [res |-> HttpError(404, "Product not found"), db |-> db, touched |-> TRUE]
        ELSE [res |-> HttpOk,
              db |-> [db EXCEPT !.product = db.product \ {product_id}],
              touched |-> TRUE]

(***************************************************************************)
(* Requests and environments the model draws from.                         *)
(***************************************************************************)
EnvUsernames == {Unset, "admin", "Admin"}
EnvPasswords == {"", "secret123", "hunter2"}
Salts == {"salt1", "salt2"}
\* the environment of the one server of Spec
ServerUsernames == {Unset, "admin"}
ServerPasswords == {"", "secret123"}
LoginUsernames == {"admin", "Admin"}
LoginPasswords == {"secret123", "hunter2"}

Lifetime == Minutes(JWT_EXPIRES_MIN)

\* a token with the right claims and expiry, signed by someone else
ForgedFor(t) ==
    jwt_encode([sub |-> "admin", role |-> "admin", exp |-> t + Lifetime], OtherSecret)

ClientTokens ==
    {Garbage, ForgedFor(now)}
    \cup (IF held = NoToken THEN {}
          ELSE {held, [held EXCEPT !.claims["exp"] = @ + Secs(Lifetime)]})

Headers ==
    {Absent, Hdr(<< >>), Hdr(<<SP>>), Hdr(<<W("Bearer")>>)}
    \cup {Hdr(<<W("Bearer"), SP, T(k)>>) : k \in ClientTokens}
    \cup (IF held = NoToken THEN {}
          ELSE {Hdr(<<W("Basic"), SP, T(held)>>),
                Hdr(<<SP, W("bearer"), SP, T(held), SP>>),
                Hdr(<<W("Bearer"), SP, T(held), SP, W("x")>>)})

ProductIds == 0..MaxProducts

Db == [admin |-> admin, product |-> product, nextId |-> nextId]

(***************************************************************************)
(* History: what kind of rejection `last` was, for comparing two runs.     *)
(***************************************************************************)
Stored(coll, username) == \E i \in 1..Len(coll) : coll[i].username = username

BearerWords == {"Bearer", "bearer", "BEARER"}

\* "Bearer <token>": exactly two whitespace-separated parts, the first the
\* scheme word in any letter case
WellFormedBearer(h) ==
    /\ h.present
    /\ LET parts == split(h.raw)
       IN  /\ Len(parts) = 2
           /\ parts[1].w = "word"
           /\ parts[1].text \in BearerWords

BearerToken(h) == TokenOf(split(h.raw)[2])

GateKind(h, t) ==
    IF ~h.present THEN "missing_header"
    ELSE IF ~WellFormedBearer(h) THEN "malformed_header"
    ELSE LET tok == BearerToken(h)
         IN  IF tok.kind # "jwt" THEN "malformed_token"
             ELSE IF tok.mac # HS256(JWT_SECRET, tok.hdr, tok.claims)
                  THEN "signature_mismatch"
             ELSE IF HasExp(tok.claims) /\ tok.claims["exp"] < Secs(t) THEN "expired"
             ELSE "none"

FailureKind(l) ==
    IF l.op = "login" /\ l.res.status # 200
    THEN (IF l.known THEN "wrong_password" ELSE "unknown_user")
    ELSE IF l.op \in {"add_product", "delete_product"} /\ l.res.status = 401
    THEN GateKind(l.header, l.at)
    ELSE "none"

Shift ==
    prev' = IF FailureKind(last) # "none"
            THEN [kind |-> FailureKind(last), res |-> last.res]
            ELSE prev

(***************************************************************************)
(* Actions.                                                                *)
(***************************************************************************)
Serving == \E p \in DOMAIN pc : pc[p] = AtServing

\* on_startup, first step: read the environment and look the user up
SeedLookup(p, username, password, raised) ==
    /\ pc[p] = AtBoot
    /\ raised => ~(NotSupplied(username) \/ NotSupplied(password))
    /\ pc' = [pc EXCEPT ![p] = seed_lookup(admin, username, password, raised)]
    /\ last' = [op |-> "seed_lookup", proc |-> p, username |-> username,
                password |-> password, raised |-> raised, before |-> admin]
    /\ Shift
    /\ UNCHANGED <<now, admin, product, nextId, held, ctx>>

\* on_startup, second step: hash the password and insert the document
SeedInsert(p, salt, raised) ==
    /\ pc[p].at = "insert"
    /\ admin' = seed_insert(admin, pc[p].username, pc[p].password, salt, now, raised)
    /\ pc' = [pc EXCEPT ![p] = on_startup(raised)]
    /\ last' = [op |-> "seed_insert", proc |-> p, username |-> pc[p].username,
                password |-> pc[p].password, raised |-> raised, before |-> admin]
    /\ Shift
    /\ UNCHANGED <<now, product, nextId, held, ctx>>

Login(username, password) ==
    /\ Serving
    /\ LET r == admin_login(Db, username, password, now)
       IN  /\ admin' = r.db.admin
           /\ product' = r.db.product
           /\ nextId' = r.db.nextId
           /\ held' = IF r.res.status = 200 THEN r.res.token ELSE held
           /\ last' = [op |-> "login", username |-> username, password |-> password,
                       known |-> Stored(admin, username), at |-> now, res |-> r.res]
    /\ Shift
    /\ UNCHANGED <<now, pc, ctx>>

GetProducts ==
    /\ Serving
    /\ LET r == get_products(Db)
       IN  /\ admin' = r.db.admin
           /\ product' = r.db.product
           /\ nextId' = r.db.nextId
           /\ last' = [op |-> "get_products", res |-> r.res]
    /\ Shift
    /\ UNCHANGED <<now, pc, held, ctx>>

AddProduct(h) ==
    /\ Serving
    /\ LET r == add_product(Db, h, now)
       IN  /\ r.db.nextId <= MaxProducts
           /\ admin' = r.db.admin
           /\ product' = r.db.product
           /\ nextId' = r.db.nextId
           /\ last' = [op |-> "add_product", header |-> h, at |-> now, res |-> r.res,
                       touched |-> r.touched, before |-> product]
    /\ Shift
    /\ UNCHANGED <<now, pc, held, ctx>>

DeleteProduct(h, product_id) ==
    /\ Serving
    /\ LET r == delete_product(Db, h, product_id, now)
       IN  /\ admin' = r.db.admin
           /\ product' = r.db.product
           /\ nextId' = r.db.nextId
           /\ last' = [op |-> "delete_product", header |-> h, at |-> now, res |-> r.res,
                       touched |-> r.touched, before |-> product]
    /\ Shift
    /\ UNCHANGED <<now, pc, held, ctx>>

\* the clock of the running server moves on by a token lifetime and a second
PassTime ==
    /\ Serving
    /\ now + Lifetime + TicksPerSec <= MaxPasses * (Lifetime + TicksPerSec)
    /\ now' = now + Lifetime + TicksPerSec
    /\ last' = [op |-> "tick"]
    /\ Shift
    /\ UNCHANGED <<admin, product, nextId, pc, held, ctx>>

(***************************************************************************)
(* SpecSeed: NumProcs processes start up against one admin store, each     *)
(* with its own environment, while logins are served.                      *)
(***************************************************************************)
SeedInit ==
    /\ now = 0
    /\ admin = << >>
    /\ product = {}
    /\ nextId = 0
    /\ pc = [p \in 1..NumProcs |-> AtBoot]
    /\ held = NoToken
    /\ last = [op |-> "init"]
    /\ prev = None
    /\ ctx = NoCtx

SeedNext ==
    \/ \E p \in DOMAIN pc, u \in EnvUsernames, pw \in EnvPasswords, raised \in BOOLEAN :
          SeedLookup(p, u, pw, raised)
    \/ \E p \in DOMAIN pc, salt \in Salts, raised \in BOOLEAN : SeedInsert(p, salt, raised)
    \/ \E u \in LoginUsernames, pw \in LoginPasswords : Login(u, pw)

SpecSeed == SeedInit /\ [][SeedNext]_vars

(***************************************************************************)
(* Spec: one server starts up, then serves login and product requests as   *)
(* time passes.                                                            *)
(***************************************************************************)
Init ==
    /\ now = 0
    /\ admin = << >>
    /\ product = {}
    /\ nextId = 0
    /\ pc = [p \in {1} |-> AtBoot]
    /\ held = NoToken
    /\ last = [op |-> "init"]
    /\ prev = None
    /\ ctx = NoCtx

Next ==
    \/ \E p \in DOMAIN pc, u \in ServerUsernames, pw \in ServerPasswords, raised \in BOOLEAN :
          SeedLookup(p, u, pw, raised)
    \/ \E p \in DOMAIN pc, salt \in Salts, raised \in BOOLEAN : SeedInsert(p, salt, raised)
    \/ \E u \in LoginUsernames, pw \in LoginPasswords : Login(u, pw)
    \/ GetProducts
    \/ \E h \in Headers : AddProduct(h)
    \/ \E h \in Headers, product_id \in ProductIds : DeleteProduct(h, product_id)
    \/ PassTime

Spec == Init /\ [][Next]_vars

(***************************************************************************)
(* Properties of seeding and login, checked under SpecSeed.                *)
(***************************************************************************)
SeedStep == last.op \in {"seed_lookup", "seed_insert"}

\* C8 as stated: after any number of start-ups the admin store holds at
\* most one credential and never two with the same username, and a start-up
\* without a username or a password inserts nothing.
C8_AtMostOneCredential ==
    /\ Len(admin) <= 1
    /\ \A i, j \in 1..Len(admin) : admin[i].username = admin[j].username => i = j
    /\ (SeedStep /\ (NotSupplied(last.username) \/ NotSupplied(last.password))) =>
          admin = last.before

\* C2 as stated: login answers 200 with a token and the username exactly
\* when some stored credential has that exact username and a hash the
\* password matches; otherwise it answers 401 and issues no token.
C2_LoginIffStoredCredentialMatches ==
    last.op = "login" =>
        LET match == \E i \in 1..Len(admin) :
                        /\ admin[i].username = last.username
                        /\ pwd_verify(last.password, admin[i].password)
        IN  /\ match <=> ( /\ last.res.status = 200
                           /\ last.res.token # NoToken
                           /\ last.res.username = last.username )
            /\ ~match => (last.res.status = 401 /\ last.res.token = NoToken)

LoginFailures == {"unknown_user", "wrong_password"}

\* C3: a failed login for a username with no stored credential and one for
\* a stored username with a wrong password get the same response, status
\* and body.
C3_FailedLoginsIndistinguishable ==
    (FailureKind(last) \in LoginFailures /\ prev.kind \in LoginFailures) =>
        last.res = prev.res

\* C3 witness: an unknown-user failure right after a wrong-password failure
C3_BothFailuresSeen ==
    /\ FailureKind(last) = "unknown_user"
    /\ prev.kind = "wrong_password"

Protected == last.op \in {"add_product", "delete_product"}

Authorized(l) ==
    /\ WellFormedBearer(l.header)
    /\ verify_jwt(BearerToken(l.header), l.at).status = 200

GateFailures ==
    {"missing_header", "malformed_header", "malformed_token",
     "signature_mismatch", "expired"}

TokenFailures == {"malformed_token", "signature_mismatch", "expired"}

TwoGateRejections ==
    /\ Protected
    /\ FailureKind(last) \in GateFailures
    /\ prev.kind \in GateFailures

C10_OnlySeedingWritesAdmin ==
    [][last'.op # "seed_insert" => admin' = admin]_vars

\* C10 witness: a successful login against a seeded store
C10_LoginAgainstSeededStore ==
    /\ last.op = "login"
    /\ last.res.status = 200
    /\ Len(admin) = 1

(***************************************************************************)
(* SpecJwt: create_jwt and verify_jwt applied to tokens that were issued,  *)
(* signed by someone else, or altered in one place, as the clock runs.     *)
(***************************************************************************)
ClaimMaps ==
    { [sub |-> "admin", role |-> "admin"],
      [sub |-> "root"],
      [sub |-> "admin", role |-> "admin", exp |-> 7] }

TtlChoices == {-1, 1}

MaxNow == (MinuteSecs + MaxSlackSecs) * TicksPerSec

\* The ways one place of a compact token can be altered
TamperParts == {"alg", "typ", "sub", "exp", "sig", "pad1", "pad2", "pad3", "dot"}

Tampered(tok, part) ==
    CASE part = "alg"  -> [tok EXCEPT !.hdr.alg = "HS384"]
      [] part = "typ"  -> [tok EXCEPT !.hdr.typ = "JWS"]
      [] part = "sub"  -> [tok EXCEPT !.claims = [k \in DOMAIN tok.claims |->
                              IF k = "sub" THEN "admim" ELSE tok.claims[k]]]
      [] part = "exp"  -> [tok EXCEPT !.claims = [k \in DOMAIN tok.claims |->
                              IF k = "exp" THEN tok.claims[k] + 1 ELSE tok.claims[k]]]
      [] part = "sig"  -> [tok EXCEPT !.mac.key = "corrupted"]
      [] part = "pad1" -> [tok EXCEPT !.pad = 1]
      [] part = "pad2" -> [tok EXCEPT !.pad = 2]
      [] part = "pad3" -> [tok EXCEPT !.pad = 3]
      [] part = "dot"  -> Garbage

JwtInit ==
    /\ now = 0
    /\ admin = << >>
    /\ product = {}
    /\ nextId = 0
    /\ pc = [p \in {} |-> "boot"]
    /\ held = NoToken
    /\ last = [op |-> "init"]
    /\ prev = None
    /\ ctx = NoCtx

JwtIssue(payload, ttl) ==
    /\ now <= MaxIssueTick
    /\ LET r == create_jwt(payload, ttl, now)
       IN  /\ held' = r.token
           /\ ctx' = [origin |-> "issued", payload |-> payload, after |-> r.payload,
                      ttl |-> ttl, at |-> now, base |-> r.token, part |-> "none",
                      key |-> JWT_SECRET]
    /\ last' = [op |-> "issue"]
    /\ UNCHANGED <<now, admin, product, nextId, pc, prev>>

\* A token made outside create_jwt by a holder of `key`, with or without "exp"
JwtForge(payload, withExp, key) ==
    /\ now <= MaxIssueTick
    /\ LET c   == IF withExp THEN WithExp(payload, now + Minutes(1))
                  ELSE Without(payload, "exp")
           tok == jwt_encode(c, key)
       IN  /\ held' = tok
           /\ ctx' = [origin |-> "forged", payload |-> payload, after |-> payload,
                      ttl |-> 1, at |-> now, base |-> tok, part |-> "none",
                      key |-> key]
    /\ last' = [op |-> "forge"]
    /\ UNCHANGED <<now, admin, product, nextId, pc, prev>>

JwtTamper(part) ==
    /\ held.kind = "jwt"
    /\ ctx.origin = "issued"
    /\ held' = Tampered(held, part)
    /\ ctx' = [ctx EXCEPT !.origin = "tampered", !.part = part]
    /\ last' = [op |-> "tamper"]
    /\ UNCHANGED <<now, admin, product, nextId, pc, prev>>

JwtVerify ==
    /\ held # NoToken
    /\ last' = [op |-> "verify", token |-> held, at |-> now, res |-> verify_jwt(held, now)]
    /\ UNCHANGED <<now, admin, product, nextId, pc, held, prev, ctx>>

JwtTick(d) ==
    /\ now + d <= MaxNow
    /\ now' = now + d
    /\ last' = [op |-> "tick"]
    /\ UNCHANGED <<admin, product, nextId, pc, held, prev, ctx>>

JwtNext ==
    \/ \E payload \in ClaimMaps, ttl \in TtlChoices : JwtIssue(payload, ttl)
    \/ \E payload \in ClaimMaps, withExp \in BOOLEAN, key \in Secrets :
          JwtForge(payload, withExp, key)
    \/ \E part \in TamperParts : JwtTamper(part)
    \/ JwtVerify
    \/ \E d \in {1, TicksPerSec, Minutes(1)} : JwtTick(d)

SpecJwt == JwtInit /\ [][JwtNext]_vars

(***************************************************************************)
(* Properties of create_jwt / verify_jwt, checked under SpecJwt.           *)
(***************************************************************************)
\* The signature segment is the MAC of this token's own header and payload
\* under the configured secret
SignedWithSecret(tok) ==
    /\ tok.mac.key = JWT_SECRET
    /\ tok.mac.hdr = tok.hdr
    /\ tok.mac.claims = tok.claims

Unauthorized == HttpError(401, "Invalid or expired token")

VerifiedExpiring ==
    /\ last.op = "verify"
    /\ last.token.kind = "jwt"
    /\ HasExp(last.token.claims)

\* C1 (as amended): an HS256 token carrying an expiry verifies if and only if its
\* signature was made with the configured secret and the current time, in
\* whole seconds, is not after the expiry (it still verifies during the
\* second that equals its expiry); a token issued with ttl = -1 minute is
\* rejected at every time at or after issuance.
C1_ValidIffSignedAndNotAfterExpiry ==
    /\ VerifiedExpiring =>
          ( (last.res.status = 200) <=>
            ( SignedWithSecret(last.token)
              /\ Secs(last.at) <= last.token.claims["exp"] ) )
    /\ (last.op = "verify" /\ ctx.origin = "issued" /\ ctx.ttl = -1) =>
          last.res = Unauthorized

\* C1 as stated: valid if and only if signed with the configured secret and
\* current time < expiry, so rejected at the instant the two are equal.
C1_ValidIffSignedAndBeforeExpiry ==
    VerifiedExpiring =>
        ( (last.res.status = 200) <=>
          ( SignedWithSecret(last.token)
            /\ last.at < last.token.claims["exp"] * TicksPerSec ) )

\* C1 witness: an issued token verified during the second of its expiry,
\* and accepted
C1_VerifiedAtExpiry ==
    /\ VerifiedExpiring
    /\ ctx.origin = "issued"
    /\ Secs(last.at) = last.token.claims["exp"]
    /\ last.res.status = 200

RoundTripped ==
    /\ last.op = "verify"
    /\ ctx.origin = "issued"
    /\ ctx.ttl > 0
    /\ last.at = ctx.at

\* C4 (as amended): for a claims map that has no "exp" key of its own and a
\* positive ttl, verify_jwt(create_jwt(claims, ttl)) right after issuance
\* succeeds and returns every original claim with its original value plus
\* exactly one added key, "exp", equal to issuance time + ttl minutes in
\* whole seconds; create_jwt leaves the caller's map as it was.
C4_RoundTripAddsOnlyExp ==
    (RoundTripped /\ ~HasExp(ctx.payload)) =>
        /\ last.res.status = 200
        /\ DOMAIN last.res.claims = (DOMAIN ctx.payload) \cup {"exp"}
        /\ Cardinality((DOMAIN last.res.claims) \ (DOMAIN ctx.payload)) = 1
        /\ \A k \in DOMAIN ctx.payload : last.res.claims[k] = ctx.payload[k]
        /\ last.res.claims["exp"] = Secs(ctx.at + Minutes(ctx.ttl))
        /\ ctx.after = ctx.payload

\* C4 as stated: the same for every claims map.
C4_RoundTripEveryClaimsMap ==
    RoundTripped =>
        /\ last.res.status = 200
        /\ Cardinality((DOMAIN last.res.claims) \ (DOMAIN ctx.payload)) = 1
        /\ \A k \in DOMAIN ctx.payload : last.res.claims[k] = ctx.payload[k]
        /\ last.res.claims["exp"] = Secs(ctx.at + Minutes(ctx.ttl))
        /\ ctx.after = ctx.payload

\* C4 witness: the login payload issued with a positive ttl, verified at
\* the tick of issuance, and accepted
C4_RoundTripDone ==
    /\ RoundTripped
    /\ ctx.payload = [sub |-> "admin", role |-> "admin"]
    /\ last.res.status = 200
    /\ "exp" \in DOMAIN last.res.claims

PadParts == {"pad1", "pad2", "pad3"}

\* C7 (as amended): a token with correct claims and an unexpired expiry
\* signed with a secret other than the configured one fails verify_jwt, and
\* so does a token obtained from a valid one by a change to its header, its
\* payload, a separator, or the signature value; the failure is the 401
\* outcome.  A change confined to the two unused low-order bits of the last
\* signature character decodes to the same signature and leaves the
\* verdict as it was.
C7_BoundToSecretAndContent ==
    /\ (last.op = "verify" /\ ctx.origin = "forged" /\ ctx.key # JWT_SECRET) =>
          last.res = Unauthorized
    /\ (last.op = "verify" /\ ctx.origin = "tampered" /\ ctx.part \notin PadParts) =>
          last.res = Unauthorized
    /\ (last.op = "verify" /\ ctx.origin = "tampered" /\ ctx.part \in PadParts) =>
          last.res = verify_jwt(ctx.base, last.at)

\* C7 as stated: every single-place change of a valid token fails.
C7_EveryChangeFails ==
    /\ (last.op = "verify" /\ ctx.origin = "forged" /\ ctx.key # JWT_SECRET) =>
          last.res = Unauthorized
    /\ (last.op = "verify" /\ ctx.origin = "tampered") =>
          last.res = Unauthorized

\* C7 witness: a token that is valid now, altered in its payload, verified
\* and rejected
C7_TamperedRejected ==
    /\ last.op = "verify"
    /\ ctx.origin = "tampered"
    /\ ctx.part = "sub"
    /\ verify_jwt(ctx.base, last.at).status = 200
    /\ last.res = Unauthorized

====
